---- MODULE Spec2Model ----
(***************************************************************************)
(* CSV Sorter (src/app/page.tsx).  The file holds two variants of the page *)
(* component Home: the generic one (lines 16-280: upload, three sort       *)
(* slots, Sort Data, Download) and the domain-specific one (lines 298-455: *)
(* upload, fixed normalisation and sort, Download).                        *)
(*                                                                         *)
(* JavaScript strings are modelled as tuples of one-character strings, so  *)
(* that includes, toLowerCase, split and localeCompare are computed.       *)
(* Cell values are tagged with their typeof.                               *)
(***************************************************************************)
EXTENDS Integers, Sequences, FiniteSets, TLC

VARIABLES
    variant,       \* which Home component is mounted: "generic" or "domain"
    csvData,       \* useState csvData
    headers,       \* useState headers (generic)
    sortColumns,   \* useState sortColumns (generic)
    sortedData,    \* useState sortedData (generic)
    error,         \* useState error
    inflight,      \* Papa.parse calls started and not yet called back
    nextId,        \* number of the next upload (history: orders the uploads)
    csvFrom,       \* history: number of the upload whose callback last set csvData
    results,       \* history: results.data of the parse delivered last
    filteredData,  \* history: value of the .filter(...) stage of that delivery
    uncaught,      \* an exception escaped a callback
    download,      \* the artifact handed to the browser by the last Download
    probe          \* inputs and outputs of the sort comparator applied on its own

vars == <<variant, csvData, headers, sortColumns, sortedData, error, inflight,
          nextId, csvFrom, results, filteredData, uncaught, download, probe>>

----------------------------------------------------------------------------
(* Bounds *)

MaxUploads == 3     \* uploads per behaviour of Spec
MaxRows == 3        \* rows of a parsed file drawn by SpecPipeline
MaxSortRows == 2    \* rows of a parsed file drawn by SpecSort

----------------------------------------------------------------------------
(* Strings *)

sNoiseGeneric == <<"O", "r", "d", "e", "r", "s", " ", "C", "o", "n", "t", "a", "i", "n", "e", "d", " ", "i", "n", " ", "P", "u", "l", "l", " ", "S", "h", "e", "e", "t">>
sNoiseLower == <<"o", "r", "d", "e", "r", "s", " ", "c", "o", "n", "t", "a", "i", "n", "e", "d", " ", "i", "n", " ", "p", "u", "l", "l", " ", "s", "h", "e", "e", "t">>
sPullSheet == <<"p", "u", "l", "l", " ", "s", "h", "e", "e", "t">>
sUndefined == <<"u", "n", "d", "e", "f", "i", "n", "e", "d">>
sTrue == <<"t", "r", "u", "e">>
sFalse == <<"f", "a", "l", "s", "e">>
sEmpty == <<>>
s10 == <<"1", "0">>
s2 == <<"2">>
s30 == <<"3", "0">>
s1 == <<"1">>
s1z == <<"1", "z">>
sLob1 == <<"L", "O", "B", "-", "0", "0", "1", "-", "E", "N">>
sLob2 == <<"L", "O", "B", "-", "0", "0", "2", "-", "E", "N">>
sLobEn3 == <<"L", "O", "B", "-", "E", "N", "0", "0", "3">>
sLobOnly == <<"L", "O", "B">>
sLobDash == <<"L", "O", "B", "-">>
sCommon == <<"C", "o", "m", "m", "o", "n">>
sRare == <<"R", "a", "r", "e">>
sFooter == <<"O", "r", "d", "e", "r", "s", " ", "C", "o", "n", "t", "a", "i", "n", "e", "d", " ", "i", "n", " ", "P", "u", "l", "l", " ", "S", "h", "e", "e", "t", " ", "-", " ", "P", "a", "g", "e", " ", "1">>
sPullUpper == <<"P", "U", "L", "L", " ", "S", "H", "E", "E", "T">>
sPullTitle == <<"P", "u", "l", "l", " ", "S", "h", "e", "e", "t">>
sApple == <<"a", "p", "p", "l", "e">>
sAppleCap == <<"A", "p", "p", "l", "e">>
sKuriboh == <<"K", "u", "r", "i", "b", "o", "h">>

LowerCase == <<"a", "b", "c", "d", "e", "f", "g", "h", "i", "j", "k", "l", "m",
               "n", "o", "p", "q", "r", "s", "t", "u", "v", "w", "x", "y", "z">>
UpperCase == <<"A", "B", "C", "D", "E", "F", "G", "H", "I", "J", "K", "L", "M",
               "N", "O", "P", "Q", "R", "S", "T", "U", "V", "W", "X", "Y", "Z">>
Digits == <<"0", "1", "2", "3", "4", "5", "6", "7", "8", "9">>

\* the characters of the strings of the model
Alphabet ==
    {LowerCase[i] : i \in 1..26} \cup {UpperCase[i] : i \in 1..26}
        \cup {Digits[i] : i \in 1..10} \cup {" ", "-", ",", "\"", "\r\n"}

IsUpper(c) == \E i \in 1..26 : UpperCase[i] = c

\* String.prototype.toLowerCase, one character
LowerOf ==
    [c \in Alphabet |->
        IF IsUpper(c) THEN LowerCase[CHOOSE i \in 1..26 : UpperCase[i] = c] ELSE c]

LowerChar(c) == LowerOf[c]

\* String.prototype.toLowerCase
toLowerCase(s) == [i \in 1..Len(s) |-> LowerChar(s[i])]

\* does sub occur in s at position i (1-based)
OccursAt(s, sub, i) ==
    /\ i + Len(sub) - 1 <= Len(s)
    /\ \A j \in 1..Len(sub) : s[i + j - 1] = sub[j]

\* String.prototype.includes: scan the start positions left to right
RECURSIVE IncludesFrom(_, _, _)
IncludesFrom(s, sub, i) ==
    IF i + Len(sub) - 1 > Len(s) THEN FALSE
    ELSE IF OccursAt(s, sub, i) THEN TRUE
    ELSE IncludesFrom(s, sub, i + 1)

includes(s, sub) == IncludesFrom(s, sub, 1)

\* String.prototype.trim (Papa transform of the domain variant)
RECURSIVE trim(_)
trim(s) ==
    IF s = <<>> THEN s
    ELSE IF Head(s) = " " THEN trim(Tail(s))
    ELSE IF s[Len(s)] = " " THEN trim(SubSeq(s, 1, Len(s) - 1))
    ELSE s

\* String.prototype.split('-'): the segments between the delimiters
RECURSIVE SplitFrom(_, _, _)
SplitFrom(s, i, cur) ==
    IF i > Len(s) THEN <<cur>>
    ELSE IF s[i] = "-" THEN <<cur>> \o SplitFrom(s, i + 1, <<>>)
    ELSE SplitFrom(s, i + 1, Append(cur, s[i]))

split(s) == SplitFrom(s, 1, <<>>)

\* Collation order of String.prototype.localeCompare (default locale):
\* white space and punctuation, then digits, then letters; a letter's case
\* is a tertiary difference, lower case first.
CollationOrder == <<" ", "-", ",", "\"">> \o Digits \o LowerCase

PrimaryOf ==
    [c \in Alphabet \ {"\r\n"} |->
        CHOOSE i \in 1..Len(CollationOrder) : CollationOrder[i] = LowerOf[c]]

Primary(c) == PrimaryOf[c]

Sign(n) == IF n < 0 THEN -1 ELSE IF n > 0 THEN 1 ELSE 0

Min(m, n) == IF m < n THEN m ELSE n

localeCompare(a, b) ==
    LET n == Min(Len(a), Len(b))
        pdiff == {i \in 1..n : Primary(a[i]) # Primary(b[i])}
        tdiff == {i \in 1..n : a[i] # b[i]}
        first(S) == CHOOSE i \in S : \A j \in S : i <= j
    IN  IF pdiff # {}
        THEN Sign(Primary(a[first(pdiff)]) - Primary(b[first(pdiff)]))
        ELSE IF Len(a) # Len(b) THEN Sign(Len(a) - Len(b))
        ELSE IF tdiff # {}
        THEN (IF IsUpper(a[first(tdiff)]) THEN 1 ELSE -1)
        ELSE 0

\* Number.prototype.toString for the integers of the model
RECURSIVE NatToString(_)
NatToString(n) ==
    IF n < 10 THEN <<Digits[n + 1]>>
    ELSE Append(NatToString(n \div 10), Digits[(n % 10) + 1])

NumberToString(n) ==
    IF n < 0 THEN <<"-">> \o NatToString(0 - n) ELSE NatToString(n)

----------------------------------------------------------------------------
(* Cell values: string | number | boolean (interface CSVRow), undefined for *)
(* a missing key, object for the __parsed_extra array of a long row        *)

Str(s) == [t |-> "string", s |-> s, n |-> 0, b |-> FALSE]
Num(n) == [t |-> "number", s |-> <<>>, n |-> n, b |-> FALSE]
Bool(b) == [t |-> "boolean", s |-> <<>>, n |-> 0, b |-> b]
Arr(s) == [t |-> "object", s |-> s, n |-> 0, b |-> FALSE]
Undefined == [t |-> "undefined", s |-> <<>>, n |-> 0, b |-> FALSE]

typeof(v) == v.t

\* String(value)
String(v) ==
    CASE v.t = "string" -> v.s
      [] v.t = "number" -> NumberToString(v.n)
      [] v.t = "boolean" -> (IF v.b THEN sTrue ELSE sFalse)
      [] v.t = "object" -> v.s
      [] OTHER -> sUndefined

\* value || dflt for a string-or-undefined value
OrDefault(v, dflt) == IF v.t = "string" /\ v.s # <<>> THEN v ELSE Str(dflt)

\* A row is an object: its entries in insertion order
Field(k, v) == [k |-> k, v |-> v]

ObjectKeys(row) == [i \in 1..Len(row) |-> row[i].k]

ObjectValues(row) == [i \in 1..Len(row) |-> row[i].v]

\* row[column]
Get(row, column) ==
    IF \E i \in 1..Len(row) : row[i].k = column
    THEN row[CHOOSE i \in 1..Len(row) : row[i].k = column].v
    ELSE Undefined

----------------------------------------------------------------------------
(* Filtering *)

\* faulty variant: the predicate looks into every value, whatever its type
KeepGeneric_AnyType(row) ==
    ~ \E i \in 1..Len(row) : includes(String(row[i].v), sNoiseGeneric)

\* generic variant, lines 31-35: the predicate passed to results.data.filter
KeepGeneric(row) ==
    ~ \E i \in 1..Len(row) :
        /\ typeof(row[i].v) = "string"
        /\ includes(row[i].v.s, sNoiseGeneric)

FilterGeneric(data) == SelectSeq(data, KeepGeneric)

\* domain-specific variant, lines 326-336
KeepDomain(row) ==
    ~ \E i \in 1..Len(row) :
        /\ typeof(row[i].v) = "string"
        /\ LET lowerValue == toLowerCase(row[i].v.s)
           IN  includes(lowerValue, sNoiseLower) \/ includes(lowerValue, sPullSheet)

FilterDomain(data) == SelectSeq(data, KeepDomain)

\* Papa transform of the domain variant, line 311: every cell is trimmed
TransformRow(row) ==
    [i \in 1..Len(row) |->
        IF typeof(row[i].v) = "string"
        THEN Field(row[i].k, Str(trim(row[i].v.s)))
        ELSE row[i]]

TransformData(data) == [i \in 1..Len(data) |-> TransformRow(data[i])]

----------------------------------------------------------------------------
(* Normalisation, domain-specific variant, lines 337-352 *)

\* faulty variant: split('-')[0]: the segment before the first delimiter
NumberShort_FirstSegment(number) ==
    IF typeof(number) # "string" THEN <<>> ELSE split(number.s)[1]

\* number?.split('-')[1] || ''
NumberShort(number) ==
    IF typeof(number) # "string" THEN <<>>
    ELSE LET parts == split(number.s)
         IN  IF Len(parts) >= 2 THEN parts[2] ELSE <<>>

Normalize(row) ==
    LET number == Get(row, "Number")
        numbershort == NumberShort(number)
        quantity == OrDefault(Get(row, "Quantity"), s1)
    IN  << Field("numbershort", Str(numbershort)),
           Field("number", number),
           Field("product name", OrDefault(Get(row, "Product Name"), <<>>)),
           Field("condition", OrDefault(Get(row, "Condition"), <<>>)),
           Field("qty", quantity),
           Field("rarity", OrDefault(Get(row, "Rarity"), <<>>)),
           Field("set", OrDefault(Get(row, "Set"), <<>>)),
           Field("notes", Str(<<>>)) >>

NormalizeData(data) == [i \in 1..Len(data) |-> Normalize(data[i])]

----------------------------------------------------------------------------
(* Sorting *)

\* Array.prototype.sort places the elements one after the other (an
\* insertion sort, stable as ECMAScript requires): x goes behind the last
\* element of sorted that does not compare greater than it; le holds the
\* positions of the elements that do not compare greater
InsertBehind(sorted, x, le) ==
    LET pos == IF le = {} THEN 0 ELSE CHOOSE j \in le : \A k \in le : k <= j
    IN  SubSeq(sorted, 1, pos) \o <<x>> \o SubSeq(sorted, pos + 1, Len(sorted))

\* faulty variant: the direction of the key is ignored: always ascending
CompareKey_IgnoreOrder(a, b, column, order) ==
    localeCompare(String(Get(a, column)), String(Get(b, column)))

\* generic variant, lines 68-86: one SortKey applied to two rows
CompareKey(a, b, column, order) ==
    LET aValue == Get(a, column)
        bValue == Get(b, column)
    IN  IF typeof(aValue) = "string" /\ typeof(bValue) = "string"
        THEN (IF order = "asc" THEN localeCompare(aValue.s, bValue.s)
                               ELSE localeCompare(bValue.s, aValue.s))
        ELSE IF typeof(aValue) = "number" /\ typeof(bValue) = "number"
        THEN (IF order = "asc" THEN aValue.n - bValue.n ELSE bValue.n - aValue.n)
        ELSE IF typeof(aValue) = "boolean" /\ typeof(bValue) = "boolean"
        THEN (IF order = "asc"
              THEN (IF aValue.b THEN 1 ELSE 0) - (IF bValue.b THEN 1 ELSE 0)
              ELSE (IF bValue.b THEN 1 ELSE 0) - (IF aValue.b THEN 1 ELSE 0))
        ELSE LET aStr == String(aValue)
                 bStr == String(bValue)
             IN  IF order = "asc" THEN localeCompare(aStr, bStr)
                                  ELSE localeCompare(bStr, aStr)

\* generic variant, lines 66-89: the comparator handleSort passes to sort
RECURSIVE CompareFrom(_, _, _, _)
CompareFrom(a, b, spec, i) ==
    IF i > Len(spec) THEN 0
    ELSE LET result == CompareKey(a, b, spec[i].column, spec[i].order)
         IN  IF result # 0 THEN result ELSE CompareFrom(a, b, spec, i + 1)

Compare(a, b, spec) == CompareFrom(a, b, spec, 1)

\* domain-specific variant, lines 354-372: set, rarity, condition, product name
CompareDomain(a, b) ==
    LET f(row, k) == Get(row, k).s
    IN  IF f(a, "set") # f(b, "set") THEN localeCompare(f(a, "set"), f(b, "set"))
        ELSE IF f(a, "rarity") # f(b, "rarity")
        THEN localeCompare(f(a, "rarity"), f(b, "rarity"))
        ELSE IF f(a, "condition") # f(b, "condition")
        THEN localeCompare(f(a, "condition"), f(b, "condition"))
        ELSE localeCompare(f(a, "product name"), f(b, "product name"))

\* faulty variant: an element that ties with one already placed is dropped
SortGeneric_Unique(data, spec) ==
    LET insert(sorted, x) ==
            IF \E j \in 1..Len(sorted) : Compare(sorted[j], x, spec) = 0
            THEN sorted
            ELSE InsertBehind(sorted, x,
                              {j \in 1..Len(sorted) : Compare(sorted[j], x, spec) <= 0})
        r[k \in 0..Len(data)] == IF k = 0 THEN <<>> ELSE insert(r[k - 1], data[k])
    IN  r[Len(data)]

\* generic variant, line 66: [...csvData].sort(comparator)
SortGeneric(data, spec) ==
    LET insert(sorted, x) ==
            InsertBehind(sorted, x,
                         {j \in 1..Len(sorted) : Compare(sorted[j], x, spec) <= 0})
        r[k \in 0..Len(data)] == IF k = 0 THEN <<>> ELSE insert(r[k - 1], data[k])
    IN  r[Len(data)]

\* domain-specific variant, line 354: .sort(comparator)
SortDomain(data) ==
    LET insert(sorted, x) ==
            InsertBehind(sorted, x,
                         {j \in 1..Len(sorted) : CompareDomain(sorted[j], x) <= 0})
        r[k \in 0..Len(data)] == IF k = 0 THEN <<>> ELSE insert(r[k - 1], data[k])
    IN  r[Len(data)]

----------------------------------------------------------------------------
(* Export: Papa.unparse of an array of objects, lines 97 and 382.  The     *)
(* columns are the keys of the first object, a missing value is written as *)
(* the empty cell, a cell is quoted when it holds the delimiter, a quote   *)
(* or a leading or trailing space.                                         *)

DoubleQuotes(s) ==
    LET r[k \in 0..Len(s)] ==
            IF k = 0 THEN <<>>
            ELSE IF s[k] = "\"" THEN r[k - 1] \o <<"\"", "\"">>
            ELSE Append(r[k - 1], s[k])
    IN  r[Len(s)]

QuoteCell(s) ==
    IF \/ \E i \in 1..Len(s) : s[i] \in {",", "\"", "\n", "\r"}
       \/ (s # <<>> /\ (s[1] = " " \/ s[Len(s)] = " "))
    THEN <<"\"">> \o DoubleQuotes(s) \o <<"\"">>
    ELSE s

CellText(v) == IF typeof(v) = "undefined" THEN <<>> ELSE QuoteCell(String(v))

JoinWith(cells, sep) ==
    LET r[k \in 0..Len(cells)] ==
            IF k = 0 THEN <<>>
            ELSE IF k = 1 THEN cells[1]
            ELSE r[k - 1] \o <<sep>> \o cells[k]
    IN  r[Len(cells)]

unparse(data) ==
    IF data = <<>> THEN <<>>
    ELSE LET fields == ObjectKeys(data[1])
             headerLine == JoinWith([i \in 1..Len(fields) |-> QuoteCell(<<fields[i]>>)], ",")
             line(row) == JoinWith([i \in 1..Len(fields) |-> CellText(Get(row, fields[i]))], ",")
         IN  JoinWith(<<headerLine>> \o [i \in 1..Len(data) |-> line(data[i])], "\r\n")

----------------------------------------------------------------------------
(* Files.  A file stands for what Papa.parse makes of it: either the error *)
(* callback (the file cannot be read), or the complete callback with       *)
(* results.data, results.errors and results.meta.fields.  With header:true *)
(* and no dynamicTyping every cell of results.data is a string; a short    *)
(* row lacks the keys of its missing cells and a long row carries the      *)
(* array __parsed_extra.                                                   *)

Unreadable == [kind |-> "error", fields |-> <<>>, data |-> <<>>, errors |-> <<>>]

Parsed(fields, data, errors) ==
    [kind |-> "complete", fields |-> fields, data |-> data, errors |-> errors]

Price(s) == <<Field("price", Str(s))>>

CardRow(number, quantity, rarity) ==
    <<Field("Number", Str(number)), Field("Quantity", Str(quantity)),
      Field("Rarity", Str(rarity))>>

\* files of the generic page
\* (Papa reports a one-column file with this message and still completes)
OneColumn == <<"Unable to auto-detect delimiting character; defaulted to ','">>

gPrices == Parsed(<<"price">>, <<Price(s10), Price(s2), Price(s30)>>, OneColumn)
gOther == Parsed(<<"price">>, <<Price(s1z), Price(sFooter)>>, OneColumn)
gHeaderOnly == Parsed(<<"price">>, <<>>, OneColumn)
gFooterOnly == Parsed(<<"price">>, <<Price(sFooter)>>, OneColumn)

GenericFiles == {gPrices, gOther, gHeaderOnly, gFooterOnly, Unreadable}

\* files of the domain-specific page
dCards == Parsed(<<"Number", "Quantity", "Rarity">>,
                 <<CardRow(sLob2, <<>>, sRare), CardRow(sFooter, <<>>, <<>>),
                   CardRow(sLob1, s2, sCommon)>>, <<>>)
dOther == Parsed(<<"Number", "Quantity", "Rarity">>,
                 <<CardRow(sLobEn3, s1, sRare)>>, <<>>)
dHeaderOnly == Parsed(<<"Number", "Quantity", "Rarity">>, <<>>, <<>>)
dMalformed == Parsed(<<"Number", "Quantity", "Rarity">>,
                     <<CardRow(sLob1, s2, sCommon), <<Field("Number", Str(sLob2))>> >>,
                     <<"Too few fields: expected 3 fields but parsed 1">>)

DomainFiles == {dCards, dOther, dHeaderOnly, dMalformed, Unreadable}

Files(v) == IF v = "generic" THEN GenericFiles ELSE DomainFiles

NoResults == Parsed(<<>>, <<>>, <<>>)

NoDownload == [name |-> "", type |-> "", csv |-> <<>>]

NoProbe == [a |-> <<>>, b |-> <<>>, c |-> <<>>, order |-> "", applied |-> FALSE,
            ab |-> 0, ba |-> 0, bc |-> 0, ac |-> 0]

----------------------------------------------------------------------------
(* The page after mounting: the useState initial values, lines 17-21 and   *)
(* 299-300                                                                 *)

Mounted(v, n) ==
    /\ variant = v
    /\ csvData = <<>>
    /\ headers = <<>>
    /\ sortColumns = <<>>
    /\ sortedData = <<>>
    /\ error = ""
    /\ nextId = n
    /\ csvFrom = 0
    /\ results = NoResults
    /\ filteredData = <<>>
    /\ uncaught = FALSE
    /\ download = NoDownload
    /\ probe = NoProbe

Init ==
    /\ \E v \in {"generic", "domain"} : Mounted(v, 1)
    /\ inflight = {}

----------------------------------------------------------------------------
(* Upload *)

\* handleFileUpload, lines 23-27 and 302-308: start the parse of the chosen
\* file (choosing no file returns at once and changes nothing)
handleFileUpload(file) ==
    /\ nextId <= MaxUploads
    /\ inflight' = inflight \cup {[id |-> nextId, file |-> file]}
    /\ nextId' = nextId + 1
    /\ UNCHANGED <<variant, csvData, headers, sortColumns, sortedData, error,
                   csvFrom, results, filteredData, uncaught, download, probe>>

\* generic variant, lines 29-39: the complete callback.  setCsvData is
\* queued before Object.keys(filteredData[0]) throws on an empty result.
GenericComplete(p) ==
    /\ variant = "generic"
    /\ p.file.kind = "complete"
    /\ inflight' = inflight \ {p}
    /\ LET filtered == FilterGeneric(p.file.data)
       IN  /\ results' = p.file
           /\ filteredData' = filtered
           /\ csvData' = filtered
           /\ csvFrom' = p.id
           /\ IF filtered = <<>>
              THEN uncaught' = TRUE /\ headers' = headers
              ELSE uncaught' = uncaught /\ headers' = ObjectKeys(filtered[1])
    /\ UNCHANGED <<variant, sortColumns, sortedData, error, nextId, download, probe>>

\* generic variant, line 40: the error callback
GenericError(p) ==
    /\ variant = "generic"
    /\ p.file.kind = "error"
    /\ inflight' = inflight \ {p}
    /\ error' = "Error parsing CSV file"
    /\ UNCHANGED <<variant, csvData, headers, sortColumns, sortedData, nextId,
                   csvFrom, results, filteredData, uncaught, download, probe>>

\* domain-specific variant, lines 312 and 317-374: the promise resolves
DomainResolved(p) ==
    /\ variant = "domain"
    /\ p.file.kind = "complete"
    /\ inflight' = inflight \ {p}
    /\ LET data == TransformData(p.file.data)
       IN  /\ results' = [p.file EXCEPT !.data = data]
           /\ IF Len(p.file.errors) > 0
              THEN /\ error' = p.file.errors[1]
                   /\ UNCHANGED <<csvData, csvFrom, filteredData>>
              ELSE /\ error' = ""
                   /\ filteredData' = FilterDomain(data)
                   /\ csvData' = SortDomain(NormalizeData(FilterDomain(data)))
                   /\ csvFrom' = p.id
    /\ UNCHANGED <<variant, headers, sortColumns, sortedData, nextId, uncaught,
                   download, probe>>

\* domain-specific variant, lines 313 and 376-378: the promise rejects
DomainRejected(p) ==
    /\ variant = "domain"
    /\ p.file.kind = "error"
    /\ inflight' = inflight \ {p}
    /\ error' = "Error processing CSV file"
    /\ UNCHANGED <<variant, csvData, headers, sortColumns, sortedData, nextId,
                   csvFrom, results, filteredData, uncaught, download, probe>>

----------------------------------------------------------------------------
(* Sort Data and Download *)

\* generic variant, lines 63-92; the button is rendered while csvData is
\* not empty (line 126), so the early return of line 64 is never taken
handleSort ==
    /\ variant = "generic"
    /\ Len(csvData) > 0
    /\ sortedData' = SortGeneric(csvData, sortColumns)
    /\ UNCHANGED <<variant, csvData, headers, sortColumns, error, inflight, nextId,
                   csvFrom, results, filteredData, uncaught, download, probe>>

\* generic variant, lines 261-268: is the Download button rendered
DownloadOffered == Len(csvData) > 0 /\ Len(sortedData) > 0

\* generic variant, lines 94-107
downloadSortedCSV ==
    /\ variant = "generic"
    /\ DownloadOffered
    /\ Len(sortedData) > 0
    /\ download' = [name |-> "sorted-data.csv", type |-> "text/csv",
                    csv |-> unparse(sortedData)]
    /\ UNCHANGED <<variant, csvData, headers, sortColumns, sortedData, error,
                   inflight, nextId, csvFrom, results, filteredData, uncaught, probe>>

\* domain-specific variant, lines 381-390 and 405-412
downloadCSV ==
    /\ variant = "domain"
    /\ Len(csvData) > 0
    /\ download' = [name |-> "sorted_cards.csv", type |-> "text/csv",
                    csv |-> unparse(csvData)]
    /\ UNCHANGED <<variant, csvData, headers, sortColumns, sortedData, error,
                   inflight, nextId, csvFrom, results, filteredData, uncaught, probe>>

----------------------------------------------------------------------------
(* The sort slots, generic variant, lines 132-246.  They are rendered     *)
(* while csvData is not empty.                                             *)

\* what reading array[index] of a too short array gives
Hole == [column |-> "", order |-> "undefined"]

\* sortColumns[index], index counted from 0
At(array, index) == IF index < Len(array) THEN array[index + 1] ELSE Hole

\* if (current)
Truthy(entry) == entry # Hole

\* the options of a column <select>: the placeholder and the headers
ColumnOptions == {""} \cup {headers[i] : i \in 1..Len(headers)}

OrderOptions == {"asc", "desc"}

SlotsRendered == variant = "generic" /\ Len(csvData) > 0

SetSortColumns(value) ==
    /\ sortColumns' = value
    /\ UNCHANGED <<variant, csvData, headers, sortedData, error, inflight, nextId,
                   csvFrom, results, filteredData, uncaught, download, probe>>

\* lines 132-133
PrimaryColumn(value) ==
    /\ SlotsRendered
    /\ SetSortColumns(<<[column |-> value, order |-> "asc"]>>)

\* lines 141-147
PrimaryOrder(value) ==
    /\ SlotsRendered
    /\ LET current == At(sortColumns, 0)
       IN  IF Truthy(current)
           THEN SetSortColumns(<<[current EXCEPT !.order = value]>>)
           ELSE SetSortColumns(sortColumns)

\* lines 156-165
SecondaryColumn(value) ==
    /\ SlotsRendered
    /\ LET current == At(sortColumns, 0)
       IN  IF Truthy(current)
           THEN SetSortColumns(<<current, [column |-> value, order |-> "asc"]>>)
           ELSE SetSortColumns(sortColumns)

\* lines 173-182
SecondaryOrder(value) ==
    /\ SlotsRendered
    /\ LET current == At(sortColumns, 1)
       IN  IF Truthy(current)
           THEN SetSortColumns(<<At(sortColumns, 0), [current EXCEPT !.order = value]>>)
           ELSE SetSortColumns(sortColumns)

\* faulty variant: the guard reads slot 0 where the code reads slot 1
TertiaryColumn_SlotZero(value) ==
    /\ SlotsRendered
    /\ IF Truthy(At(sortColumns, 0))
       THEN SetSortColumns(<<At(sortColumns, 0), At(sortColumns, 1),
                             [column |-> value, order |-> "asc"]>>)
       ELSE SetSortColumns(sortColumns)

\* lines 191-201
TertiaryColumn(value) ==
    /\ SlotsRendered
    /\ LET current == At(sortColumns, 1)
       IN  IF Truthy(current)
           THEN SetSortColumns(<<At(sortColumns, 0), current,
                                 [column |-> value, order |-> "asc"]>>)
           ELSE SetSortColumns(sortColumns)

\* lines 209-219
TertiaryOrder(value) ==
    /\ SlotsRendered
    /\ LET current == At(sortColumns, 2)
       IN  IF Truthy(current)
           THEN SetSortColumns(<<At(sortColumns, 0), At(sortColumns, 1),
                                 [current EXCEPT !.order = value]>>)
           ELSE SetSortColumns(sortColumns)

\* sortColumns.filter((_, i) => i !== index)
FilterIndex(array, index) ==
    [i \in 1..(Len(array) - 1) |-> IF i - 1 < index THEN array[i] ELSE array[i + 1]]

\* lines 239-246: the Remove button of row index (counted from 0)
Remove(index) ==
    /\ SlotsRendered
    /\ index < Len(sortColumns)
    /\ SetSortColumns(FilterIndex(sortColumns, index))

----------------------------------------------------------------------------
(* The page: every handler, over the files above *)

Next ==
    \/ \E file \in Files(variant) : handleFileUpload(file)
    \/ \E p \in inflight : GenericComplete(p)
    \/ \E p \in inflight : GenericError(p)
    \/ \E p \in inflight : DomainResolved(p)
    \/ \E p \in inflight : DomainRejected(p)
    \/ handleSort
    \/ downloadSortedCSV
    \/ downloadCSV
    \/ \E value \in ColumnOptions : PrimaryColumn(value)
    \/ \E value \in OrderOptions : PrimaryOrder(value)
    \/ \E value \in ColumnOptions : SecondaryColumn(value)
    \/ \E value \in OrderOptions : SecondaryOrder(value)
    \/ \E value \in ColumnOptions : TertiaryColumn(value)
    \/ \E value \in OrderOptions : TertiaryOrder(value)
    \/ \E index \in 0..2 : Remove(index)

Spec == Init /\ [][Next]_vars

----------------------------------------------------------------------------
(* The upload pipeline on its own: one parse in flight, its result drawn   *)
(* from all the files of at most MaxRows rows over the rows below          *)

RECURSIVE SeqsUpTo(_, _)
SeqsUpTo(S, n) ==
    IF n = 0 THEN {<<>>}
    ELSE LET shorter == SeqsUpTo(S, n - 1)
         IN  shorter \cup {Append(q, x) : q \in shorter, x \in S}

SetRow(set, price) == <<Field("set", Str(set)), Field("price", Str(price))>>

GenericRows ==
    { SetRow(sApple, s10),
      SetRow(sAppleCap, s2),
      SetRow(sFooter, <<>>),
      SetRow(sNoiseLower, s2),
      <<Field("set", Str(sPullTitle))>>,
      SetRow(sApple, s2) \o <<Field("__parsed_extra", Arr(sFooter))>> }

DomainRows ==
    { CardRow(sLob1, s2, sCommon),
      CardRow(sLob2, <<>>, sRare),
      CardRow(sLobEn3, <<" ">>, sPullTitle),
      CardRow(sFooter, <<>>, <<>>),
      CardRow(sLobOnly, s1, <<" ", "R", "a", "r", "e">>),
      CardRow(sLobDash, s1, sCommon) }

\* rows of a file that has no Number column
NamedRows ==
    { <<Field("Product Name", Str(sKuriboh)), Field("Rarity", Str(sCommon))>>,
      <<Field("Product Name", Str(sPullUpper)), Field("Rarity", Str(<<>>))>> }

PipelineFiles(v) ==
    IF v = "generic"
    THEN {Parsed(<<"set", "price">>, d, <<>>) : d \in SeqsUpTo(GenericRows, MaxRows)}
    ELSE {Parsed(<<"Number", "Quantity", "Rarity">>, d, <<>>) : d \in SeqsUpTo(DomainRows, MaxRows)}
         \cup {Parsed(<<"Product Name", "Rarity">>, d, <<>>) : d \in SeqsUpTo(NamedRows, MaxRows)}

InitPipeline ==
    \E v \in {"generic", "domain"} :
        /\ Mounted(v, 2)
        /\ \E file \in PipelineFiles(v) : inflight = {[id |-> 1, file |-> file]}

NextPipeline ==
    \/ \E p \in inflight : GenericComplete(p)
    \/ \E p \in inflight : DomainResolved(p)

SpecPipeline == InitPipeline /\ [][NextPipeline]_vars

----------------------------------------------------------------------------
(* Sorting on its own: generic page, one parse in flight, then the sort    *)
(* slots and Sort Data                                                     *)

SortRows ==
    { SetRow(sApple, s10),
      SetRow(sApple, s2),
      SetRow(sAppleCap, s2),
      <<Field("set", Str(sRare))>> }

SortFiles == {Parsed(<<"set", "price">>, d, <<>>) : d \in SeqsUpTo(SortRows, MaxSortRows)}

InitSort ==
    /\ Mounted("generic", 2)
    /\ \E file \in SortFiles : inflight = {[id |-> 1, file |-> file]}

NextSort ==
    \/ \E p \in inflight : GenericComplete(p)
    \/ handleSort
    \/ \E value \in ColumnOptions : PrimaryColumn(value)
    \/ \E value \in OrderOptions : PrimaryOrder(value)
    \/ \E value \in ColumnOptions : SecondaryColumn(value)
    \/ \E value \in OrderOptions : SecondaryOrder(value)
    \/ \E value \in ColumnOptions : TertiaryColumn(value)
    \/ \E value \in OrderOptions : TertiaryOrder(value)
    \/ \E index \in 0..2 : Remove(index)

SpecSort == InitSort /\ [][NextSort]_vars

----------------------------------------------------------------------------
(* The comparator of handleSort on its own, over every type of value the   *)
(* interface CSVRow admits                                                 *)

ProbeValues ==
    {Str(s2), Str(s10), Str(s1z), Num(2), Num(10), Bool(TRUE), Bool(FALSE), Undefined}

ProbeRow(v) == IF typeof(v) = "undefined" THEN <<>> ELSE <<Field("price", v)>>

InitCompare ==
    /\ variant = "generic"
    /\ csvData = <<>>
    /\ headers = <<>>
    /\ sortColumns = <<>>
    /\ sortedData = <<>>
    /\ error = ""
    /\ inflight = {}
    /\ nextId = 1
    /\ csvFrom = 0
    /\ results = NoResults
    /\ filteredData = <<>>
    /\ uncaught = FALSE
    /\ download = NoDownload
    /\ \E a \in ProbeValues, b \in ProbeValues, c \in ProbeValues, order \in OrderOptions :
          probe = [NoProbe EXCEPT !.a = ProbeRow(a), !.b = ProbeRow(b),
                                  !.c = ProbeRow(c), !.order = order]

\* the comparator of lines 66-89 applied to the pairs of three rows
ApplyCompare ==
    /\ ~ probe.applied
    /\ LET spec == <<[column |-> "price", order |-> probe.order]>>
       IN  probe' = [probe EXCEPT !.applied = TRUE,
                                  !.ab = Compare(probe.a, probe.b, spec),
                                  !.ba = Compare(probe.b, probe.a, spec),
                                  !.bc = Compare(probe.b, probe.c, spec),
                                  !.ac = Compare(probe.a, probe.c, spec)]
    /\ UNCHANGED <<variant, csvData, headers, sortColumns, sortedData, error,
                   inflight, nextId, csvFrom, results, filteredData, uncaught, download>>

SpecCompare == InitCompare /\ [][ApplyCompare]_vars

----------------------------------------------------------------------------
(* Properties *)

\* C1: the page never shows a Dataset and an error message together:
\* whenever an error message is set no Dataset is held, and whenever a
\* Dataset is held the error message is empty.
C1_NoPartialSuccess == ~ (error # "" /\ Len(csvData) > 0)

\* C2 (as claimed): numbershort of every record is the whole of number
\* behind its first "-", and empty when number is absent or has no "-".
C2_WholeRemainder ==
    variant = "domain" =>
        \A i \in 1..Len(csvData) :
            LET number == Get(csvData[i], "number")
                dashes == {k \in 1..Len(number.s) : number.s[k] = "-"}
                first == CHOOSE k \in dashes : \A m \in dashes : k <= m
            IN  Get(csvData[i], "numbershort") =
                    Str(IF typeof(number) # "string" \/ dashes = {} THEN <<>>
                        ELSE SubSeq(number.s, first + 1, Len(number.s)))

\* C2 (amended): numbershort of every record is the part of number between
\* its first "-" and its second "-" (the end of number when there is no
\* second one), and empty when number is absent or has no "-".
C2_SecondSegment ==
    variant = "domain" =>
        \A i \in 1..Len(csvData) :
            LET number == Get(csvData[i], "number")
                dashes == {k \in 1..Len(number.s) : number.s[k] = "-"}
                first == CHOOSE k \in dashes : \A m \in dashes : k <= m
                later == {k \in dashes : k > first}
                second == IF later = {} THEN Len(number.s) + 1
                          ELSE CHOOSE k \in later : \A m \in later : k <= m
            IN  Get(csvData[i], "numbershort") =
                    Str(IF typeof(number) # "string" \/ dashes = {} THEN <<>>
                        ELSE SubSeq(number.s, first + 1, second - 1))

\* a record of LOB-001-EN (two delimiters) and one of a number without
\* delimiter have been normalised
C2_Witness ==
    /\ variant = "domain"
    /\ \E i \in 1..Len(csvData) :
          /\ Get(csvData[i], "number") = Str(sLob1)
          /\ Get(csvData[i], "numbershort") = Str(<<"0", "0", "1">>)
    /\ \E i \in 1..Len(csvData) :
          /\ Get(csvData[i], "number") = Str(sLobOnly)
          /\ Get(csvData[i], "numbershort") = Str(<<>>)

\* C3: whenever the Download button is offered, the Dataset it exports
\* (sortedData) holds exactly the records of the Dataset of the file
\* uploaded last (csvData).
C3_DownloadExportsCurrent ==
    DownloadOffered =>
        /\ Len(sortedData) = Len(csvData)
        /\ \A i \in 1..Len(sortedData) :
              Cardinality({j \in 1..Len(sortedData) : sortedData[j] = sortedData[i]})
                  = Cardinality({j \in 1..Len(csvData) : csvData[j] = sortedData[i]})

\* C4: after the upload of a file none of whose rows survives, no exception
\* has escaped, the Dataset is empty, headers is empty or the header of
\* that file, and Download is not offered.
C4_EmptyDatasetAccepted ==
    (csvFrom > 0 /\ filteredData = <<>>) =>
        /\ ~ uncaught
        /\ csvData = <<>>
        /\ headers \in {<<>>, results.fields}
        /\ ~ DownloadOffered

\* C5: the filter stage returns exactly the rows of results.data none of
\* whose string values contains a noise substring (the generic one exactly
\* as written, the two domain ones in any letter case), in their order.
C5_FilterExact ==
    (csvFrom > 0 /\ (variant = "generic" \/ results.errors = <<>>)) =>
        LET data == results.data
            Same(c, d) ==
                \/ c = d
                \/ variant = "domain" /\ \E k \in 1..26 : {c, d} = {LowerCase[k], UpperCase[k]}
            Holds(str, noise) ==
                \E i \in 1..Len(str) :
                    /\ i + Len(noise) - 1 <= Len(str)
                    /\ \A j \in 1..Len(noise) : Same(str[i + j - 1], noise[j])
            Noises == IF variant = "generic" THEN {sNoiseGeneric} ELSE {sNoiseLower, sPullSheet}
            Noisy(row) ==
                \E i \in 1..Len(row) :
                    row[i].v.t = "string" /\ \E noise \in Noises : Holds(row[i].v.s, noise)
            kept == {i \in 1..Len(data) : ~ Noisy(data[i])}
        IN  /\ Len(filteredData) = Cardinality(kept)
            /\ \A i \in kept :
                  filteredData[Cardinality({j \in kept : j <= i})] = data[i]

\* a footer row was removed from between two surviving rows, one of which
\* carries the noise text in a value that is not a string
C5_Witness ==
    /\ variant = "generic"
    /\ Len(results.data) = 3
    /\ Len(filteredData) = 2
    /\ results.data[2] = SetRow(sFooter, <<>>)
    /\ filteredData[1] # filteredData[2]
    /\ \E i \in 1..Len(filteredData[2]) : filteredData[2][i].v = Arr(sFooter)

\* C6: Sort Data (the one handler that sets sortedData) stores in sortedData
\* a permutation of csvData (the same records, each as often) and leaves
\* csvData as it is.
C6_SortIsPermutation ==
    [][(sortColumns' = sortColumns /\ handleSort) =>
          /\ csvData' = csvData
          /\ Len(sortedData') = Len(csvData)
          /\ \A i \in 1..Len(csvData) :
                Cardinality({j \in 1..Len(sortedData') : sortedData'[j] = csvData[i]})
                    = Cardinality({j \in 1..Len(csvData) : csvData[j] = csvData[i]})]_vars

\* a sort under a SortSpec that names a column no record has (the
\* placeholder) has reordered a Dataset of two records
C6_Witness ==
    /\ Len(sortedData) = 2
    /\ sortedData # csvData
    /\ \E i \in 1..Len(sortColumns) : sortColumns[i].column = ""

\* C7: after Sort Data, of any two records of sortedData the one placed
\* first is the one the earliest SortKey on which they differ puts first:
\* the smaller one when that key is ascending, the greater one when it is
\* descending; numeric prices 10, 2, 30 under (price, desc) come out as
\* 30, 10, 2.
C7_KeyPrecedence ==
    [][(sortColumns' = sortColumns /\ handleSort) =>
          /\ \A i \in 1..Len(sortedData') : \A j \in (i + 1)..Len(sortedData') :
                LET a == sortedData'[i]
                    b == sortedData'[j]
                    asc(k) == CompareKey(a, b, sortColumns[k].column, "asc")
                    differ == {k \in 1..Len(sortColumns) : asc(k) # 0}
                    first == CHOOSE k \in differ : \A m \in differ : k <= m
                IN  differ # {} =>
                        IF sortColumns[first].order = "asc" THEN asc(first) < 0
                                                            ELSE asc(first) > 0
          /\ SortGeneric(<<ProbeRow(Num(10)), ProbeRow(Num(2)), ProbeRow(Num(30))>>,
                         <<[column |-> "price", order |-> "desc"]>>)
                = <<ProbeRow(Num(30)), ProbeRow(Num(10)), ProbeRow(Num(2))>>]_vars

\* a sort by (set, asc), (price, desc) has placed two records that tie on
\* set by their price, the greater first
C7_Witness ==
    /\ sortColumns = <<[column |-> "set", order |-> "asc"],
                       [column |-> "price", order |-> "desc"]>>
    /\ csvData = <<SetRow(sApple, s10), SetRow(sApple, s2)>>
    /\ sortedData = <<SetRow(sApple, s2), SetRow(sApple, s10)>>

\* C8: the Dataset held never goes back from a later upload to an earlier
\* one: once the parse of the newer of two uploads has set csvData, the
\* completion of the older one does not replace it.
C8_NewerUploadWins == [][csvFrom' >= csvFrom]_vars

C10_SortSpecWellFormed ==
    /\ [](/\ Len(sortColumns) <= 3
          /\ \A i \in 1..Len(sortColumns) :
                /\ sortColumns[i] # Hole
                /\ DOMAIN sortColumns[i] = {"column", "order"}
                /\ sortColumns[i].order \in {"asc", "desc"})
    /\ [][sortColumns' # sortColumns =>
            /\ ((\E v \in ColumnOptions : SecondaryColumn(v))
                  \/ (\E v \in OrderOptions : SecondaryOrder(v)))
                 => Len(sortColumns) >= 1
            /\ ((\E v \in ColumnOptions : TertiaryColumn(v))
                  \/ (\E v \in OrderOptions : TertiaryOrder(v)))
                 => Len(sortColumns) >= 2]_vars

\* all three slots are filled, the second with the placeholder column, the
\* third descending
C10_Witness ==
    /\ Len(sortColumns) = 3
    /\ sortColumns[2].column = ""
    /\ sortColumns[3].order = "desc"

====
